---- MODULE Spec2Model ----
(***************************************************************************)
(* Model of the line-buffered scanner of src/scan/src/lib.rs               *)
(* (LineReadScanner and its implementation of the Scanner trait).          *)
(*                                                                         *)
(* Text is modelled as the sequence of its UTF-8 bytes, so that byte       *)
(* offsets, character boundaries and the byte-wise copy of copy_str are    *)
(* what they are in the program.  A panic of the program (a slice taken    *)
(* off a character boundary, a failed assertion) stops the scanner.        *)
(***************************************************************************)
EXTENDS Integers, Sequences, FiniteSets, TLC

VARIABLES
    reader,     \* bytes of the source the BufReader has not delivered yet
    cur_line,   \* Option<String>: None or Some(line)
    cur_pos,    \* byte offset into the current line
    panicked,   \* the program panicked: no further call is made
    result,     \* the caller's destination buffer (the &mut str of scan_str)
    call,       \* the last call made: [op, pat, ty]
    ret,        \* what the last call returned: [status, val, err]
    twin        \* a second scanner run in lockstep on a variant of the source

vars == <<reader, cur_line, cur_pos, panicked, result, call, ret, twin>>

---------------------------------------------------------------------------
(* Bounds of the model.                                                    *)

\* longest source text, in bytes
MaxSrcLen == 4
\* largest capacity of the caller's destination buffer, in bytes
MaxCap == 2

---------------------------------------------------------------------------
(* Text: UTF-8 bytes.                                                      *)

\* '\n'
NL == <<10>>
\* the characters of the model's texts: '1', ',' and the two-byte U+00E9
Chars == {<<49>>, <<44>>, <<195, 169>>}
\* ' ', the filler of a fresh destination buffer
Blank == <<32>>

\* the patterns handed to expect, scan_str_to and scan_to: "", ",", U+00E9
Patterns == {<<>>, <<44>>, <<195, 169>>}
\* the FromStr types handed to scan and scan_to
Types == {"String", "u32"}

RECURSIVE Texts(_, _)
\* all texts over the characters cs of at most n bytes
Texts(cs, n) ==
    IF n = 0 THEN {<<>>}
    ELSE LET shorter == Texts(cs, n - 1)
         IN shorter \cup {x \in {t \o c : t \in shorter, c \in cs} : Len(x) <= n}

\* the sources: texts of lines separated (and maybe ended) by '\n'
Sources == Texts(Chars \cup {NL}, MaxSrcLen)
\* the contents of one line
Lines == Texts(Chars, MaxSrcLen)

\* s[from..] and s[..to] of Rust, on 0-based byte offsets
Drop(s, n) == SubSeq(s, n + 1, Len(s))
Take(s, n) == SubSeq(s, 1, n)

None == <<>>
Some(x) == <<x>>

min(a, b) == IF a <= b THEN a ELSE b

\* str::is_char_boundary: offset 0, the length, or a byte that does not
\* continue a character (a continuation byte is 10xxxxxx, 128..191)
is_char_boundary(s, i) ==
    \/ i = 0
    \/ i = Len(s)
    \/ i < Len(s) /\ ~(s[i + 1] >= 128 /\ s[i + 1] < 192)

\* char::len_utf8 of the character that starts with byte b
len_utf8(b) ==
    IF b < 128 THEN 1 ELSE IF b < 224 THEN 2 ELSE IF b < 240 THEN 3 ELSE 4

\* rest.match_indices(p).next(): the first occurrence of p in rest, as
\* Some([index, len]) with a 0-based byte index, or None
match_indices_next(rest, p) ==
    LET hits == {i \in 0..(Len(rest) - Len(p)) :
                    SubSeq(rest, i + 1, i + Len(p)) = p}
    IN IF hits = {} THEN None
       ELSE Some([index |-> CHOOSE i \in hits : \A j \in hits : i <= j,
                  len |-> Len(p)])

---------------------------------------------------------------------------
(* Results.                                                                *)

Ok(v) == [status |-> "ok", val |-> v, err |-> <<>>]
Err(e) == [status |-> "err", val |-> <<>>, err |-> e]
Panic == [status |-> "panic", val |-> <<>>, err |-> <<>>]
NoRet == [status |-> "none", val |-> <<>>, err |-> <<>>]

RECURSIVE StripZeros(_)
\* a text of ASCII digits without its leading zeros ("0" for zero): a u32
\* value is held as its canonical decimal numeral
StripZeros(s) ==
    IF Len(s) > 1 /\ s[1] = 48 THEN StripZeros(Drop(s, 1)) ELSE s

\* u32::MAX, 4294967295, as a numeral
MaxU32 == <<52, 50, 57, 52, 57, 54, 55, 50, 57, 53>>

\* numeral d denotes at most u32::MAX
FitsU32(d) ==
    \/ Len(d) < Len(MaxU32)
    \/ /\ Len(d) = Len(MaxU32)
       /\ \/ d = MaxU32
          \/ \E k \in 1..Len(d) :
                d[k] < MaxU32[k] /\ \A j \in 1..(k - 1) : d[j] = MaxU32[j]

\* FromStr::from_str(input).map_err(|_| input.to_owned()): String always
\* parses; u32 parses a non-empty text of digits that does not overflow
scan_internal(ty, input) ==
    IF ty = "String" THEN Ok(input)
    ELSE IF /\ input # <<>>
            /\ \A i \in 1..Len(input) : input[i] >= 48 /\ input[i] <= 57
            /\ FitsU32(StripZeros(input))
         THEN Ok(StripZeros(input))
         ELSE Err(input)

---------------------------------------------------------------------------
(* LineReadScanner.  A scanner is [reader, cur_line, cur_pos, panic].      *)

\* LineReadScanner::new
new(input) ==
    [reader |-> input, cur_line |-> None, cur_pos |-> 0, panic |-> FALSE]

\* BufRead::read_line: the bytes up to and including the first '\n', or all
\* that is left
PhysicalLineLen(r) ==
    IF \E i \in 1..Len(r) : r[i] = 10
    THEN CHOOSE i \in 1..Len(r) : r[i] = 10 /\ \A j \in 1..(i - 1) : r[j] # 10
    ELSE Len(r)

\* read_line that takes an empty line for the end of the source
read_line_blank_is_eof(self) ==
    LET n == PhysicalLineLen(self.reader)
        s == Take(self.reader, n)
        left == Drop(self.reader, n)
    IN IF n = 0 \/ s = NL
       THEN [self EXCEPT !.reader = left, !.cur_line = None, !.cur_pos = 0]
       ELSE IF ~is_char_boundary(s, Len(s) - 1)
            THEN [self EXCEPT !.reader = left, !.panic = TRUE]
            ELSE IF Drop(s, Len(s) - 1) = NL
                 THEN [reader |-> left, cur_line |-> Some(Take(s, Len(s) - 1)),
                       cur_pos |-> 0, panic |-> FALSE]
                 ELSE [reader |-> left, cur_line |-> Some(s),
                       cur_pos |-> 0, panic |-> FALSE]

read_line(self) ==
    LET n == PhysicalLineLen(self.reader)
        s == Take(self.reader, n)
        left == Drop(self.reader, n)
    IN IF n = 0
       THEN [self EXCEPT !.cur_line = None, !.cur_pos = 0]
       ELSE IF ~is_char_boundary(s, Len(s) - 1)
            \* &s[s.len() - 1..] panics before cur_line is assigned
            THEN [self EXCEPT !.reader = left, !.panic = TRUE]
            ELSE IF Drop(s, Len(s) - 1) = NL
                 THEN [reader |-> left, cur_line |-> Some(Take(s, Len(s) - 1)),
                       cur_pos |-> 0, panic |-> FALSE]
                 ELSE [reader |-> left, cur_line |-> Some(s),
                       cur_pos |-> 0, panic |-> FALSE]

RECURSIVE advance_line(_)
\* the loop of advance_line from its call of read_line, which left r
\* advance_line that reads one line and stops, empty or not
after_read_line_once(r) == r

after_read_line(r) ==
    IF r.panic \/ r.cur_line = None THEN r ELSE advance_line(r)

\* advance_line with `<=` for `<`: a fully consumed line counts as readable
advance_line_keeps_consumed(self) ==
    IF self.cur_line # None /\ self.cur_pos <= Len(self.cur_line[1])
    THEN self
    ELSE after_read_line(read_line(self))

\* advance_line that reads a line only when none is buffered
advance_line_if_none(self) ==
    IF self.cur_line # None
    THEN self
    ELSE after_read_line(read_line(self))

advance_line(self) ==
    IF self.cur_line # None /\ self.cur_pos < Len(self.cur_line[1])
    THEN self
    ELSE after_read_line(read_line(self))

\* the outcome of a call: the scanner, the returned value, the caller's buffer
Outcome(self, r, to) == [self |-> self, ret |-> r, to |-> to]

\* line[*cur_pos..] panics when cur_pos is not a character boundary
SliceOk(self) == is_char_boundary(self.cur_line[1], self.cur_pos)
Rest(self) == Drop(self.cur_line[1], self.cur_pos)

\* the closure's `let rest = &line[*cur_pos..]` panicked
SlicePanic(a, to) == Outcome([a EXCEPT !.panic = TRUE], Panic, to)

\* copy_str(from, to, count): the assertion, then count bytes of from
\* written over the front of to.  count > from.len() would read past the
\* end of from (undefined behaviour), reported as ub.
copy_str(from, to, count) ==
    IF ~(count <= Len(to)) THEN [panic |-> TRUE, ub |-> FALSE, to |-> to]
    ELSE IF count > Len(from) THEN [panic |-> FALSE, ub |-> TRUE, to |-> to]
    ELSE [panic |-> FALSE, ub |-> FALSE,
          to |-> Take(from, count) \o Drop(to, count)]

\* copy_str did not return: the assertion failed, or it read out of bounds
CopyFailed(a, c) ==
    Outcome([a EXCEPT !.panic = TRUE],
            [Panic EXCEPT !.status = IF c.ub THEN "ub" ELSE "assert"], c.to)

---------------------------------------------------------------------------
(* The closures the operations hand to with_cur_line: a is the scanner     *)
(* with a line buffered, to the caller's buffer.                           *)

\* expect that takes the first match wherever it is
expect_anywhere(a, to, p) ==
    IF ~SliceOk(a) THEN SlicePanic(a, to)
    ELSE LET rest == Rest(a)
             m == match_indices_next(rest, p)
         IN IF m # None
            THEN Outcome([a EXCEPT !.cur_pos = a.cur_pos + m[1].len],
                         Ok(m[1].len), to)
            ELSE Outcome(a, Err(rest), to)

\* expect whose failure returns the whole line, not the remainder
expect_err_line(a, to, p) ==
    IF ~SliceOk(a) THEN SlicePanic(a, to)
    ELSE LET rest == Rest(a)
             m == match_indices_next(rest, p)
         IN IF m # None /\ m[1].index = 0
            THEN Outcome([a EXCEPT !.cur_pos = a.cur_pos + m[1].len],
                         Ok(m[1].len), to)
            ELSE Outcome(a, Err(a.cur_line[1]), to)

expect_f(a, to, p) ==
    IF ~SliceOk(a) THEN SlicePanic(a, to)
    ELSE LET rest == Rest(a)
             m == match_indices_next(rest, p)
         IN IF m # None /\ m[1].index = 0
            THEN Outcome([a EXCEPT !.cur_pos = a.cur_pos + m[1].len],
                         Ok(m[1].len), to)
            ELSE Outcome(a, Err(rest), to)

next_f(a, to) ==
    IF ~SliceOk(a) THEN SlicePanic(a, to)
    ELSE LET rest == Rest(a)
         IN IF rest # <<>>
            THEN LET n == len_utf8(rest[1])
                 IN Outcome([a EXCEPT !.cur_pos = a.cur_pos + n],
                            Ok(Take(rest, n)), to)
            ELSE Outcome(a, Err(rest), to)

\* scan_str that copies the whole remainder, whatever the buffer holds
scan_str_copies_remainder(a, to) ==
    IF ~SliceOk(a) THEN SlicePanic(a, to)
    ELSE LET rest == Rest(a)
             end == Len(rest)
             c == copy_str(rest, to, end)
         IN IF c.panic \/ c.ub THEN CopyFailed(a, c)
            ELSE Outcome([a EXCEPT !.cur_pos = a.cur_pos + end],
                         Ok(Len(to)), c.to)

\* scan_str that returns the number of bytes copied, not the capacity
scan_str_returns_copied(a, to) ==
    IF ~SliceOk(a) THEN SlicePanic(a, to)
    ELSE LET rest == Rest(a)
             end == min(Len(to), Len(rest))
             c == copy_str(rest, to, end)
         IN IF c.panic \/ c.ub THEN CopyFailed(a, c)
            ELSE Outcome([a EXCEPT !.cur_pos = a.cur_pos + end],
                         Ok(end), c.to)

scan_str_f(a, to) ==
    IF ~SliceOk(a) THEN SlicePanic(a, to)
    ELSE LET rest == Rest(a)
             end == min(Len(to), Len(rest))
             c == copy_str(rest, to, end)
         IN IF c.panic \/ c.ub THEN CopyFailed(a, c)
            ELSE Outcome([a EXCEPT !.cur_pos = a.cur_pos + end],
                         Ok(Len(to)), c.to)

\* scan_str_to with the fallback the source keeps commented out: with no
\* delimiter, copy up to the end of the line and move the cursor there
scan_str_to_or_end(a, to, p) ==
    IF ~SliceOk(a) THEN SlicePanic(a, to)
    ELSE LET rest == Rest(a)
             m == match_indices_next(rest, p)
             end == min(Len(to), IF m # None THEN m[1].index ELSE Len(rest))
             c == copy_str(rest, to, end)
         IN Outcome([a EXCEPT !.cur_pos =
                        IF m # None THEN a.cur_pos + m[1].index + m[1].len
                        ELSE Len(a.cur_line[1])],
                    Ok(Len(to)), c.to)

\* scan_str_to that leaves the cursor behind the bytes it copied, keeping
\* what did not fit in the buffer for the next read
scan_str_to_keeps_overflow(a, to, p) ==
    IF ~SliceOk(a) THEN SlicePanic(a, to)
    ELSE LET rest == Rest(a)
             m == match_indices_next(rest, p)
         IN IF m # None
            THEN LET end == min(Len(to), m[1].index)
                     c == copy_str(rest, to, end)
                 IN IF c.panic \/ c.ub THEN CopyFailed(a, c)
                    ELSE Outcome([a EXCEPT !.cur_pos =
                                     IF end < m[1].index THEN a.cur_pos + end
                                     ELSE a.cur_pos + m[1].index + m[1].len],
                                 Ok(Len(to)), c.to)
            ELSE Outcome(a, Err(rest), to)

scan_str_to_f(a, to, p) ==
    IF ~SliceOk(a) THEN SlicePanic(a, to)
    ELSE LET rest == Rest(a)
             m == match_indices_next(rest, p)
         IN IF m # None
            THEN LET end == min(Len(to), m[1].index)
                     c == copy_str(rest, to, end)
                 IN IF c.panic \/ c.ub THEN CopyFailed(a, c)
                    ELSE Outcome([a EXCEPT !.cur_pos =
                                     a.cur_pos + m[1].index + m[1].len],
                                 Ok(Len(to)), c.to)
            ELSE Outcome(a, Err(rest), to)

scan_f(a, to, ty) ==
    IF ~SliceOk(a) THEN SlicePanic(a, to)
    ELSE Outcome(a, scan_internal(ty, Rest(a)), to)

\* scan_to that moves the cursor to the delimiter, not past it
scan_to_stops_at_delimiter(a, to, ty, p) ==
    IF ~SliceOk(a) THEN SlicePanic(a, to)
    ELSE LET rest == Rest(a)
             m == match_indices_next(rest, p)
         IN IF m # None
            THEN Outcome([a EXCEPT !.cur_pos = a.cur_pos + m[1].index],
                         scan_internal(ty, Take(rest, m[1].index)), to)
            ELSE Outcome(a, Err(rest), to)

\* scan_to that moves the cursor only when the token parsed
scan_to_keeps_unparsed(a, to, ty, p) ==
    IF ~SliceOk(a) THEN SlicePanic(a, to)
    ELSE LET rest == Rest(a)
             m == match_indices_next(rest, p)
         IN IF m # None
            THEN IF scan_internal(ty, Take(rest, m[1].index)).status = "ok"
                 THEN Outcome([a EXCEPT !.cur_pos =
                                  a.cur_pos + m[1].index + m[1].len],
                              scan_internal(ty, Take(rest, m[1].index)), to)
                 ELSE Outcome(a, Err(Take(rest, m[1].index)), to)
            ELSE Outcome(a, Err(rest), to)

scan_to_f(a, to, ty, p) ==
    IF ~SliceOk(a) THEN SlicePanic(a, to)
    ELSE LET rest == Rest(a)
             m == match_indices_next(rest, p)
         IN IF m # None
            THEN Outcome([a EXCEPT !.cur_pos =
                             a.cur_pos + m[1].index + m[1].len],
                         scan_internal(ty, Take(rest, m[1].index)), to)
            ELSE Outcome(a, Err(rest), to)

\* a call, and the closure it hands to with_cur_line: the operation, its
\* pattern and its FromStr type, where it has one
Call(op, p, ty) == [op |-> op, pat |-> p, ty |-> ty]

\* f(line, &mut self.cur_pos)
call_once(f, a, to) ==
    CASE f.op = "expect" -> expect_f(a, to, f.pat)
      [] f.op = "next" -> next_f(a, to)
      [] f.op = "scan_str" -> scan_str_f(a, to)
      [] f.op = "scan_str_to" -> scan_str_to_f(a, to, f.pat)
      [] f.op = "scan" -> scan_f(a, to, f.ty)
      [] f.op = "scan_to" -> scan_to_f(a, to, f.ty, f.pat)

\* with_cur_line once advance_line has left the scanner as a
on_cur_line(a, to, f) ==
    IF a.panic THEN Outcome(a, Panic, to)
    ELSE IF a.cur_line # None THEN call_once(f, a, to)
         ELSE Outcome(a, Err(<<>>), to)

with_cur_line(self, to, f) == on_cur_line(advance_line(self), to, f)

---------------------------------------------------------------------------
(* impl Scanner for LineReadScanner.                                       *)

expect(self, to, p) == with_cur_line(self, to, Call("expect", p, "-"))

\* has_next once advance_line has left the scanner as a
is_some(a, to) ==
    IF a.panic THEN Outcome(a, Panic, to)
    ELSE Outcome(a, Ok(a.cur_line # None), to)

\* has_next without the call of advance_line
has_next_stale(self, to) == is_some(self, to)

\* has_next that reads a fresh line on every call
has_next_rereads(self, to) == is_some(after_read_line(read_line(self)), to)

has_next(self, to) == is_some(advance_line(self), to)

\* `if result.is_err() { self.cur_line = None; }`
none_if_err(o) ==
    IF o.ret.status = "err" THEN [o EXCEPT !.self.cur_line = None] ELSE o

\* next that runs its closure on the buffered line as it stands, without
\* the call of advance_line
next_no_refill(self, to) ==
    none_if_err(on_cur_line(self, to, Call("next", <<>>, "-")))

next(self, to) ==
    none_if_err(with_cur_line(self, to, Call("next", <<>>, "-")))

scan_str(self, to) == with_cur_line(self, to, Call("scan_str", <<>>, "-"))

scan_str_to(self, to, p) ==
    with_cur_line(self, to, Call("scan_str_to", p, "-"))

\* the line discarded only when the parse succeeded
discard_line_if_ok(o) ==
    IF o.ret.status = "ok" THEN [o EXCEPT !.self.cur_line = None] ELSE o

\* `self.cur_line = None;`, which a panic of the closure skips
discard_line(o) ==
    IF o.self.panic THEN o ELSE [o EXCEPT !.self.cur_line = None]

scan(self, to, ty) ==
    discard_line(with_cur_line(self, to, Call("scan", <<>>, ty)))

scan_to(self, to, ty, p) == with_cur_line(self, to, Call("scan_to", p, ty))

---------------------------------------------------------------------------
(* The state machine: a caller makes one call after another.               *)

NoCall == Call("new", <<>>, "-")

\* the scanner held in the variables
Self ==
    [reader |-> reader, cur_line |-> cur_line, cur_pos |-> cur_pos,
     panic |-> panicked]

\* what call c does to scanner self and buffer to
Apply(c, self, to) ==
    CASE c.op = "expect" -> expect(self, to, c.pat)
      [] c.op = "has_next" -> has_next(self, to)
      [] c.op = "next" -> next(self, to)
      [] c.op = "scan_str" -> scan_str(self, to)
      [] c.op = "scan_str_to" -> scan_str_to(self, to, c.pat)
      [] c.op = "scan" -> scan(self, to, c.ty)
      [] c.op = "scan_to" -> scan_to(self, to, c.ty, c.pat)

NoTwin == [on |-> FALSE, self |-> new(<<>>), to |-> <<>>, ret |-> NoRet]

\* the twin scanner, when there is one, is given the same call
TwinOf(o) == [on |-> TRUE, self |-> o.self, to |-> o.to, ret |-> o.ret]

TwinStep(c) ==
    IF twin.on /\ ~twin.self.panic
    THEN TwinOf(Apply(c, twin.self, twin.to))
    ELSE twin

Commit(c, o) ==
    /\ reader' = o.self.reader
    /\ cur_line' = o.self.cur_line
    /\ cur_pos' = o.self.cur_pos
    /\ panicked' = o.self.panic
    /\ result' = o.to
    /\ call' = c
    /\ ret' = o.ret
    /\ twin' = TwinStep(c)

Expect(p) == ~panicked /\ Commit(Call("expect", p, "-"), expect(Self, result, p))
HasNext == ~panicked /\ Commit(Call("has_next", <<>>, "-"), has_next(Self, result))
NextChar == ~panicked /\ Commit(Call("next", <<>>, "-"), next(Self, result))
ScanStr == ~panicked /\ Commit(Call("scan_str", <<>>, "-"), scan_str(Self, result))
ScanStrTo(p) ==
    ~panicked /\ Commit(Call("scan_str_to", p, "-"), scan_str_to(Self, result, p))
Scan(ty) == ~panicked /\ Commit(Call("scan", <<>>, ty), scan(Self, result, ty))
ScanTo(ty, p) ==
    ~panicked /\ Commit(Call("scan_to", p, ty), scan_to(Self, result, ty, p))

\* a buffer of n blanks
Blanks(n) == [i \in 1..n |-> Blank[1]]

InitScanner(input) ==
    /\ reader = input
    /\ cur_line = None
    /\ cur_pos = 0
    /\ panicked = FALSE
    /\ result \in {Blanks(n) : n \in 0..MaxCap}
    /\ call = NoCall
    /\ ret = NoRet

Init ==
    /\ \E input \in Sources : InitScanner(input)
    /\ twin = NoTwin

Next ==
    \/ \E p \in Patterns : Expect(p)
    \/ HasNext
    \/ NextChar
    \/ ScanStr
    \/ \E p \in Patterns : ScanStrTo(p)
    \/ \E ty \in Types : Scan(ty)
    \/ \E ty \in Types, p \in Patterns : ScanTo(ty, p)

Spec == Init /\ [][Next]_vars

\* one line L without its terminator, and the twin scanner over "L\n"
InitNL ==
    /\ \E input \in Lines : InitScanner(input)
    /\ twin = [on |-> TRUE, self |-> new(reader \o NL), to |-> result,
               ret |-> NoRet]

SpecNL == InitNL /\ [][Next]_vars

\* r without the empty lines advance_line reads over
RECURSIVE WithoutEmptyLines(_)
WithoutEmptyLines(r) ==
    IF r = <<>> THEN <<>>
    ELSE LET n == PhysicalLineLen(r)
         IN (IF Take(r, n) = NL THEN <<>> ELSE Take(r, n))
                \o WithoutEmptyLines(Drop(r, n))

\* a source with at least one empty line, and the twin scanner over the
\* same source with its empty lines removed
InitBlank ==
    /\ \E input \in Sources :
          /\ WithoutEmptyLines(input) # input
          /\ InitScanner(input)
    /\ twin = [on |-> TRUE, self |-> new(WithoutEmptyLines(reader)),
               to |-> result, ret |-> NoRet]

SpecBlank == InitBlank /\ [][Next]_vars

---------------------------------------------------------------------------
(* What the caller has not read yet, told from the state alone.            *)

\* the offsets (1-based) at which a non-empty physical line of r starts
LineStarts(r) ==
    {i \in 1..Len(r) : r[i] # NL[1] /\ (i = 1 \/ r[i - 1] = NL[1])}

\* the physical line of r that starts at i, without its terminator
LineFrom(r, i) ==
    SubSeq(r, i, CHOOSE e \in i..Len(r) :
                    /\ \A j \in i..e : r[j] # NL[1]
                    /\ (e = Len(r) \/ r[e + 1] = NL[1]))

\* the non-empty physical lines of r, in order, without their terminators
NonEmptyLines(r) ==
    [k \in 1..Cardinality(LineStarts(r)) |->
        LineFrom(r, CHOOSE i \in LineStarts(r) :
                        Cardinality({j \in LineStarts(r) : j < i}) = k - 1)]

NonEmpty(ls) == SelectSeq(ls, LAMBDA l : l # <<>>)

\* the buffered line still has bytes after the cursor
Pending == cur_line # None /\ cur_pos < Len(cur_line[1])

\* the unread remainders, line by line: what is left of the buffered line,
\* then the non-empty lines the reader still holds
Unread ==
    (IF Pending THEN <<Drop(cur_line[1], cur_pos)>> ELSE <<>>)
        \o NonEmptyLines(reader)

\* the line and the cursor an operation called now works on
LineAtCall == IF Pending THEN cur_line[1] ELSE Head(NonEmptyLines(reader))
CursorAtCall == IF Pending THEN cur_pos ELSE 0

IsPrefix(p, s) == Len(p) <= Len(s) /\ Take(s, Len(p)) = p

\* the last call returned to the caller
Returned == call.op # "new" /\ ret.status \in {"ok", "err"}

---------------------------------------------------------------------------
(* C1 (I1).                                                                *)

\* C1, as stated: whenever a call has returned and a line is buffered, the
\* cursor is strictly inside it.
I1_AtEveryReturn ==
    (~panicked /\ cur_line # None) => cur_pos < Len(cur_line[1])

\* C1, amended: the cursor is strictly inside the buffered line when
\* has_next returns; after the other operations it is at most the length of
\* the buffered line, which can stay buffered fully consumed.
I1_AfterAdvanceLine ==
    /\ cur_line # None => cur_pos <= Len(cur_line[1])
    /\ (call.op = "has_next" /\ Returned /\ cur_line # None)
           => cur_pos < Len(cur_line[1])

\* expect matched the whole remainder and the consumed line is still buffered
W_C1_ConsumedLineBuffered ==
    /\ call.op = "expect" /\ ret.status = "ok" /\ ret.val > 0
    /\ cur_line # None /\ cur_pos = Len(cur_line[1])

---------------------------------------------------------------------------
(* C2 (I4).                                                                *)

\* C2: the cursor is always a character boundary of the buffered line.
I4_CharBoundary ==
    cur_line # None => is_char_boundary(cur_line[1], cur_pos)

---------------------------------------------------------------------------
(* C3.                                                                     *)

\* C3: has_next returns true exactly when unread text remains, and exactly
\* when a next() called right afterwards succeeds.
HasNextIffNextSucceeds ==
    (call.op = "has_next" /\ Returned) =>
        /\ ret.val <=> (Unread # <<>>)
        /\ ret.val <=> (next(Self, result).ret.status = "ok")

---------------------------------------------------------------------------
(* C4.                                                                     *)

\* C4: a scanner over "L" and a scanner over "L\n", given the same calls,
\* return the same results and payloads and are left in the same state;
\* neither panics unless the other does.
TrailingNewlineTransparent ==
    twin.on =>
        /\ ret = twin.ret
        /\ panicked = twin.self.panic
        /\ cur_line = twin.self.cur_line
        /\ cur_pos = twin.self.cur_pos
        /\ result = twin.to

---------------------------------------------------------------------------
(* C5.                                                                     *)

\* nothing is left to read: the buffered line, if any, is consumed and the
\* reader holds no character but line terminators
Drained == Unread = <<>>

\* C5: once the source is drained, every further call fails with an empty
\* payload (has_next returns false), leaves no line buffered and leaves the
\* source drained.
ExhaustionAbsorbing ==
    [][Drained =>
          /\ Drained'
          /\ cur_line' = None
          /\ ~panicked'
          /\ IF call'.op = "has_next" THEN ret' = Ok(FALSE)
                                      ELSE ret' = Err(<<>>)]_vars

\* a next() past the last character of a source whose text was read before
\* (the destination buffer holds bytes copied from it)
W_C5_NextPastTheEnd ==
    /\ call.op = "next" /\ ret = Err(<<>>)
    /\ cur_line = None /\ Drained
    /\ \E i \in 1..Len(result) : result[i] # Blank[1]

---------------------------------------------------------------------------
(* C6 - C10: what one call does, told from the states before and after it. *)

\* the unread remainders once the first n bytes of the first are consumed
UnreadAfter(n) ==
    NonEmpty(<<Drop(Unread[1], n)>>) \o Tail(Unread)

\* the scanner as the step leaves it
SelfAfter ==
    [reader |-> reader', cur_line |-> cur_line', cur_pos |-> cur_pos',
     panic |-> panicked']

\* the step is a call of op that returned to the caller
Returns(op) == call'.op = op /\ ret'.status \in {"ok", "err"}

\* p occurs in s, and the 0-based offset of its first occurrence
Occurs(p, s) == \E i \in 0..(Len(s) - Len(p)) : SubSeq(s, i + 1, i + Len(p)) = p
FirstAt(p, s) ==
    CHOOSE i \in 0..(Len(s) - Len(p)) :
        /\ SubSeq(s, i + 1, i + Len(p)) = p
        /\ \A j \in 0..(i - 1) : SubSeq(s, j + 1, j + Len(p)) # p

\* the call left the line it worked on buffered, with the cursor n bytes on
Advanced(n) ==
    /\ cur_line' = Some(LineAtCall)
    /\ cur_pos' = CursorAtCall + n
    /\ reader' = (IF Pending THEN reader ELSE reader')
    /\ Unread' = UnreadAfter(n)

\* C6: expect(p) succeeds exactly when a line is available and p is a
\* prefix of its remainder; it then returns the length m of p and moves the
\* cursor m bytes on, so the next call reads what follows the match.
ExpectMatchesPrefix ==
    [][Returns("expect") =>
          LET p == call'.pat
              hit == Unread # <<>> /\ IsPrefix(p, Unread[1])
          IN /\ (ret'.status = "ok") <=> hit
             /\ hit => /\ ret'.val = Len(p)
                       /\ Advanced(Len(p))
                       /\ result' = result]_vars

\* expect matched a prefix in the middle of a line, with more to read after
W_C6_ExpectMidLine ==
    /\ call.op = "expect" /\ ret = Ok(Len(call.pat)) /\ call.pat # <<>>
    /\ cur_pos > Len(call.pat) /\ Pending

\* C7: expect(p) failing on an available line returns the unconsumed
\* remainder and leaves the line and the cursor it worked on as they were,
\* so the next call sees the same remainder.
ExpectFailureKeepsRemainder ==
    [][(Returns("expect") /\ ret'.status = "err" /\ Unread # <<>>) =>
          /\ ret'.err = Unread[1]
          /\ Advanced(0)
          /\ result' = result]_vars

\* expect failed in the middle of a line: the pattern occurs further on
W_C7_ExpectFailsMidLine ==
    /\ call.op = "expect" /\ ret.status = "err" /\ ret.err # <<>>
    /\ cur_pos > 0 /\ Pending
    /\ Occurs(call.pat, ret.err)

\* C8: scan_to::<T>(delim) with the delimiter first found at offset i parses
\* the i bytes before it as T and moves the cursor past the delimiter.
ScanToSplitsAtDelimiter ==
    [][(Returns("scan_to") /\ Unread # <<>> /\ Occurs(call'.pat, Unread[1])) =>
          LET i == FirstAt(call'.pat, Unread[1])
          IN /\ ret' = scan_internal(call'.ty, Take(Unread[1], i))
             /\ Advanced(i + Len(call'.pat))
             /\ result' = result]_vars

\* scan_to parsed a number before a delimiter in the middle of a line
W_C8_ScanToNumber ==
    /\ call.op = "scan_to" /\ call.ty = "u32" /\ call.pat # <<>>
    /\ ret.status = "ok" /\ cur_pos > Len(ret.val) + Len(call.pat) /\ Pending

ScanIsLineTerminal ==
    [][(Returns("scan") /\ Unread # <<>>) =>
          /\ ret' = scan_internal(call'.ty, Unread[1])
          /\ cur_line' = None
          /\ Unread' = Tail(Unread)
          /\ Tail(Unread) = <<>> => has_next(SelfAfter, result').ret = Ok(FALSE)
          /\ result' = result]_vars

\* scan failed to parse the rest of a partly read line, another line follows
W_C10_ScanFailsMidLine ==
    /\ call.op = "scan" /\ call.ty = "u32" /\ ret.status = "err"
    /\ ret.err # <<>> /\ cur_pos > 0 /\ cur_line = None /\ Unread # <<>>

---------------------------------------------------------------------------
(* C11, C12: the fixed-capacity copies.                                    *)

\* C11: scan_str on an available line succeeds; with n the smaller of the
\* buffer's capacity and the remainder's length, it writes the first n bytes
\* of the remainder over the first n bytes of the buffer, leaves the rest of
\* the buffer alone, moves the cursor n bytes on and returns the capacity.
ScanStrCopiesPrefix ==
    [][(Returns("scan_str") /\ Unread # <<>>) =>
          LET n == IF Len(result) <= Len(Unread[1]) THEN Len(result)
                   ELSE Len(Unread[1])
          IN /\ ret' = Ok(Len(result))
             /\ Len(result') = Len(result)
             /\ Take(result', n) = Take(Unread[1], n)
             /\ Drop(result', n) = Drop(result, n)
             /\ Advanced(n)]_vars

\* scan_str took the end of a line that is shorter than the buffer: the
\* tail of the buffer is what it was and the capacity is returned
W_C11_ShortRemainder ==
    /\ call.op = "scan_str" /\ ret = Ok(Len(result)) /\ Len(result) = 2
    /\ result[1] # Blank[1] /\ result[2] = Blank[1]
    /\ cur_line # None /\ cur_pos = Len(cur_line[1]) /\ cur_pos > 1

\* C12: scan_str_to(delim) with the delimiter first found at offset i copies
\* the smaller of capacity and i bytes of the remainder into the buffer,
\* returns the capacity and moves the cursor past the delimiter whatever the
\* capacity: what lies between the capacity and the delimiter is skipped.
ScanStrToSkipsOverflow ==
    [][(Returns("scan_str_to") /\ Unread # <<>>
            /\ Occurs(call'.pat, Unread[1])) =>
          LET i == FirstAt(call'.pat, Unread[1])
              n == IF Len(result) <= i THEN Len(result) ELSE i
          IN /\ ret' = Ok(Len(result))
             /\ Len(result') = Len(result)
             /\ Take(result', n) = Take(Unread[1], n)
             /\ Drop(result', n) = Drop(result, n)
             /\ Advanced(i + Len(call'.pat))]_vars

\* scan_str_to filled the buffer from the start of a line whose first byte
\* occurs nowhere else in it, and the cursor is past a delimiter that lies
\* further on than the buffer is long
W_C12_DelimiterBeyondCapacity ==
    /\ call.op = "scan_str_to" /\ ret = Ok(Len(result)) /\ Len(result) >= 1
    /\ call.pat # <<>> /\ cur_line # None
    /\ Len(result) <= Len(cur_line[1])
    /\ result = Take(cur_line[1], Len(result))
    /\ \A j \in 2..Len(cur_line[1]) : cur_line[1][j] # cur_line[1][1]
    /\ cur_pos - Len(call.pat) > Len(result)

---------------------------------------------------------------------------
(* C13.                                                                    *)

\* C13: has_next called again right after has_next has returned gives the
\* same boolean and leaves the buffered line, the cursor, the source and the
\* caller's buffer as the first call left them.
HasNextIdempotent ==
    (call.op = "has_next" /\ Returned) =>
        has_next(Self, result) = Outcome(Self, ret, result)

\* has_next has answered true in the middle of a line, the source not yet
\* read to its end
W_C13_HasNextMidLine ==
    /\ call.op = "has_next" /\ ret = Ok(TRUE)
    /\ cur_pos > 0 /\ reader # <<>>

---------------------------------------------------------------------------
(* C14.                                                                    *)

\* a successful scan_to left the cursor on the line it searched, past the
\* end of the occurrence it matched and strictly further than it was
PastTheMatch ==
    LET i == FirstAt(call'.pat, Unread[1])
    IN /\ cur_line' = Some(LineAtCall)
       /\ cur_pos' >= CursorAtCall + i + Len(call'.pat)
       /\ cur_pos' > CursorAtCall
       /\ Unread' # Unread

\* C14, as stated: every successful scan_to(delim) strictly advances the
\* cursor past the occurrence it matched, whatever the delimiter.
ScanToProgressAnyDelimiter ==
    [][(Returns("scan_to") /\ ret'.status = "ok" /\ Unread # <<>>) =>
          PastTheMatch]_vars

\* C14, as the code has it: every successful scan_to(delim) with a delimiter
\* of at least one byte strictly advances the cursor past the occurrence it
\* matched; the empty delimiter matches at offset 0 with length 0 and a
\* successful scan_to("") leaves the cursor where it was.
ScanToProgress ==
    [][(Returns("scan_to") /\ ret'.status = "ok" /\ Unread # <<>>) =>
          IF call'.pat # <<>> THEN PastTheMatch
          ELSE /\ ret' = Ok(<<>>)
               /\ Advanced(0)]_vars

\* scan_to::<String> matched a delimiter at the cursor itself: the token is
\* empty and the cursor has moved by the delimiter alone
W_C14_DelimiterAtCursor ==
    /\ call.op = "scan_to" /\ call.pat # <<>> /\ ret = Ok(<<>>)
    /\ cur_line # None /\ cur_pos >= Len(call.pat)

---------------------------------------------------------------------------
(* C15 (I2).                                                               *)

\* C15, as stated: whenever a call has returned, a line is buffered exactly
\* when at least one unread character is left.
I2_AtEveryReturn ==
    Returned => (cur_line # None <=> Unread # <<>>)

\* C15, as the code has it: when has_next returns, a line is buffered exactly
\* when unread text is left; a failed next() leaves no line buffered and no
\* unread text; scan() leaves no line buffered whether or not lines are left.
I2_AfterHasNext ==
    /\ (call.op = "has_next" /\ Returned) =>
           (cur_line # None <=> Unread # <<>>)
    /\ (call.op = "next" /\ ret.status = "err") =>
           (cur_line = None /\ Unread = <<>>)
    /\ (call.op = "scan" /\ Returned) => cur_line = None

\* scan() has parsed a line and left the scanner without a buffered line
\* while later lines hold unread text
W_C15_ScanWithLinesLeft ==
    /\ call.op = "scan" /\ ret.status = "ok"
    /\ cur_line = None /\ Unread # <<>>

---------------------------------------------------------------------------
(* C16.                                                                    *)

\* C16, as stated: next() called with a line buffered whose remainder is
\* empty fails with an empty payload and leaves no line buffered.
NextAtLineEndFails ==
    [][(Returns("next") /\ cur_line # None /\ cur_pos = Len(cur_line[1])) =>
          /\ ret' = Err(<<>>)
          /\ cur_line' = None]_vars

\* C16, as the code has it: next() delivers the first character of the
\* unread text, which is the first character of the next non-empty line when
\* the remainder of the buffered line is empty; it fails, with an empty
\* payload and no line left buffered, only when no unread text is left.
NextCrossesLines ==
    [][Returns("next") =>
          IF Unread # <<>>
          THEN LET n == len_utf8(Unread[1][1])
               IN /\ ret' = Ok(Take(Unread[1], n))
                  /\ Advanced(n)
          ELSE /\ ret' = Err(<<>>)
               /\ cur_line' = None
               /\ Unread' = <<>>]_vars

\* next() has delivered the first character of a line while the caller's
\* buffer holds a byte of an earlier line
W_C16_NextOnLaterLine ==
    /\ call.op = "next" /\ ret.status = "ok"
    /\ cur_line # None /\ cur_pos = Len(ret.val)
    /\ \E i \in 1..Len(result) :
          /\ result[i] # Blank[1]
          /\ \A j \in 1..Len(cur_line[1]) : cur_line[1][j] # result[i]

---------------------------------------------------------------------------
(* C17.                                                                    *)

\* C17: when scan_to(delim) finds the delimiter and the text before it does
\* not parse, the error payload is exactly that text (empty when the
\* delimiter is at the cursor) and the cursor has moved past the delimiter.
ScanToParseFailureConsumes ==
    [][(Returns("scan_to") /\ ret'.status = "err" /\ Unread # <<>>
            /\ Occurs(call'.pat, Unread[1])) =>
          LET i == FirstAt(call'.pat, Unread[1])
          IN /\ ret'.err = Take(Unread[1], i)
             /\ i = 0 => ret'.err = <<>>
             /\ Advanced(i + Len(call'.pat))
             /\ Unread' # Unread \/ call'.pat = <<>>]_vars

\* scan_to::<u32> failed on a delimiter found at the cursor: the payload is
\* empty and the cursor is past the delimiter
W_C17_EmptyTokenFails ==
    /\ call.op = "scan_to" /\ call.ty = "u32" /\ call.pat # <<>>
    /\ ret = Err(<<>>)
    /\ cur_line # None /\ cur_pos >= Len(call.pat)
    /\ SubSeq(cur_line[1], cur_pos - Len(call.pat) + 1, cur_pos) = call.pat

---------------------------------------------------------------------------
(* C18.                                                                    *)

\* C18: a scanner over a source S and a scanner over S with its empty lines
\* removed, given the same calls, return the same results and payloads,
\* fill the caller's buffer alike, panic together and, while they run, have
\* the same line buffered (or none) with the same cursor.
BlankLinesTransparent ==
    twin.on =>
        /\ ret = twin.ret
        /\ result = twin.to
        /\ panicked = twin.self.panic
        /\ ~panicked => /\ cur_line = twin.self.cur_line
                        /\ cur_pos = twin.self.cur_pos
                        /\ WithoutEmptyLines(reader) = twin.self.reader

\* every empty line of the source has been read over, next() has delivered
\* a character and more text is to come
W_C18_EmptyLinesSkipped ==
    /\ twin.on /\ reader = twin.self.reader /\ reader # <<>>
    /\ call.op = "next" /\ ret.status = "ok"

---------------------------------------------------------------------------
(* C19.                                                                    *)

\* C19: no call ends in copy_str's assertion (count > len of the buffer) or
\* in a read past the end of the remainder (count > len of the remainder),
\* and scan_str and scan_str_to never change the length of the buffer.
CopyWithinBounds ==
    [][/\ ret'.status \notin {"assert", "ub"}
       /\ call'.op \in {"scan_str", "scan_str_to"} =>
              Len(result') = Len(result)]_vars

\* scan_str_to with a buffer of capacity 0 has found its delimiter further
\* on in the line: nothing was copied and the call returned 0
W_C19_ZeroCapacity ==
    /\ call.op = "scan_str_to" /\ call.pat # <<>>
    /\ result = <<>> /\ ret = Ok(0)
    /\ cur_line # None /\ cur_pos > Len(call.pat)

---------------------------------------------------------------------------
(* C20.                                                                    *)

\* scanner a has a line buffered only with the cursor strictly inside it
Readable(a) ==
    (~a.panic /\ a.cur_line # None) => a.cur_pos < Len(a.cur_line[1])

\* C20: the line a closure is run on, the one advance_line leaves, always
\* has a non-empty remainder.  So next() fails only when no unread text is
\* left, scan_str with a buffer of at least one byte copies at least one
\* byte, and expect, scan_str_to and scan never fail with an empty payload
\* while unread text is left.
ClosureSeesText ==
    [][/\ Readable(advance_line(Self))
       /\ (call'.op = "next" /\ ret'.status = "err") => Unread = <<>>
       /\ (Returns("scan_str") /\ Unread # <<>> /\ Len(result) > 0) =>
              /\ cur_pos' > CursorAtCall
              /\ result'[1] = Unread[1][1]
       /\ (call'.op \in {"expect", "scan_str_to", "scan"}
               /\ ret'.status = "err" /\ Unread # <<>>) =>
              ret'.err # <<>>]_vars

\* expect has failed at the start of a line, with that whole line as its
\* payload, while the caller's buffer holds a byte of an earlier line
W_C20_ExpectFailsOnLaterLine ==
    /\ call.op = "expect" /\ ret.status = "err" /\ ret.err # <<>>
    /\ cur_line = Some(ret.err) /\ cur_pos = 0
    /\ \E i \in 1..Len(result) :
          /\ result[i] # Blank[1]
          /\ \A j \in 1..Len(cur_line[1]) : cur_line[1][j] # result[i]

====
